---- MODULE Spec2Model ----
(***************************************************************************)
(* Model of the gRPC transport options of sdk-go                           *)
(* (pkg/cloudevents/generic/options/grpc/options.go) and of the            *)
(* manifest-bundle codec's Decode.                                         *)
(*                                                                         *)
(*   SpecBuild  : BuildGRPCOptionsFromFlags over config documents          *)
(*   SpecConn   : GRPCOptions.GetGRPCClientConn over options and I/O       *)
(*   Spec       : GRPCOptions.GetCloudEventsProtocol and its monitor       *)
(*   SpecDecode : ManifestBundleCodec.Decode over event envelopes          *)
(***************************************************************************)
EXTENDS Integers, Sequences, FiniteSets, TLC

VARIABLES
  configFile,    \* the file at configPath: readability, well-formedness, keys
  buildPc,       \* "idle" | "start" | "done"
  buildResult,   \* what BuildGRPCOptionsFromFlags returned
  o,             \* the receiver *GRPCOptions of GetGRPCClientConn
  env,           \* outcome of each I/O step of GetGRPCClientConn
  connPc,        \* "idle" | "start" | "done"
  connResult,    \* what GetGRPCClientConn returned and did
  callerPc,      \* GetCloudEventsProtocol: "idle" | "start" | "newProtocol" | "returned"
  retErr,        \* GetCloudEventsProtocol returned a non-nil error
  connState,     \* conn.GetState(): connectivity.State, "none" before the dial
  wasActive,     \* history: the connection has been Connecting or Ready
  cancelled,     \* ctx.Done() is closed
  tickerRunning, \* the ticker was created and not stopped
  tickPending,   \* a tick is ready to be received from ticker.C
  monPc,         \* monitor goroutine: "none" | "select" | "handler" | "done"
  polls,         \* history: number of conn.GetState() calls
  handlerCalls,  \* history: number of errorHandler invocations
  closeCalls,    \* history: number of conn.Close() calls
  lastPolled,    \* history: state the last poll observed, and wasActive then
  termObserved,  \* history: a poll has observed TransientFailure or Idle
  evt,           \* the event handed to Decode
  decodePc,      \* "idle" | "start" | "done"
  decodeResult   \* what Decode returned

buildVars == <<configFile, buildPc, buildResult>>
connVars == <<o, env, connPc, connResult>>
monVars == <<callerPc, retErr, connState, wasActive, cancelled, tickerRunning,
             tickPending, monPc, polls, handlerCalls, closeCalls, lastPolled,
             termObserved>>
decodeVars == <<evt, decodePc, decodeResult>>
vars == <<buildVars, connVars, monVars, decodeVars>>

Nil == <<>>
NoErr == ""
NoResult == [none |-> TRUE]
Range(s) == {s[i] : i \in DOMAIN s}

(***************************************************************************)
(* BuildGRPCOptionsFromFlags                                               *)
(***************************************************************************)

\* A key that the document does not hold.
Unset == "<unset>"

\* Scalars a document may hold under the string keys, the boolean keys and
\* the duration keys.
StringScalars == {Unset, "", "test"}
BoolScalars == {Unset, "true", "false"}
DurationScalars == {Unset, "5s", "10s", "30s"}

\* time.Duration of a duration scalar, in seconds.
ParseDuration(s) ==
  CASE s = "5s" -> 5
    [] s = "10s" -> 10
    [] s = "30s" -> 30

DefaultTime == 30
DefaultTimeout == 10

ConfigFiles ==
  [ readable : BOOLEAN,
    wellFormed : BOOLEAN,
    url : StringScalars,
    caFile : StringScalars,
    clientCertFile : StringScalars,
    clientKeyFile : StringScalars,
    tokenFile : StringScalars,
    enable : BoolScalars,
    time : DurationScalars,
    timeout : DurationScalars,
    permitWithoutStream : BoolScalars ]

\* yaml.Unmarshal into a zero GRPCConfig: a missing key leaves the zero value
\* ("" , false, nil pointer).
StringField(s) == IF s = Unset THEN "" ELSE s
BoolField(s) == s = "true"
DurationPtr(s) == IF s = Unset THEN Nil ELSE <<ParseDuration(s)>>

Unmarshal(doc) ==
  [ URL |-> StringField(doc.url),
    CAFile |-> StringField(doc.caFile),
    ClientCertFile |-> StringField(doc.clientCertFile),
    ClientKeyFile |-> StringField(doc.clientKeyFile),
    TokenFile |-> StringField(doc.tokenFile),
    KeepAliveConfig |->
      [ Enable |-> BoolField(doc.enable),
        Time |-> DurationPtr(doc.time),
        Timeout |-> DurationPtr(doc.timeout),
        PermitWithoutStream |-> BoolField(doc.permitWithoutStream) ] ]

ErrReadFile == "open: no such file or directory"
ErrYaml == "yaml: unmarshal errors"
ErrURL == "url is required"
ErrPair == "either both or none of clientCertFile and clientKeyFile must be set"
ErrCertCA == "setting clientCertFile and clientKeyFile requires caFile"
ErrTokenCA == "setting tokenFile requires caFile"

\* The validation chain, lines 88-101: the error of the first failing check.
ValidateTokenFirst(config) ==
  IF config.URL = "" THEN ErrURL
  ELSE IF config.TokenFile # "" /\ config.CAFile = "" THEN ErrTokenCA
  ELSE IF (config.ClientCertFile = "" /\ config.ClientKeyFile # "")
          \/ (config.ClientCertFile # "" /\ config.ClientKeyFile = "") THEN ErrPair
  ELSE IF config.ClientCertFile # "" /\ config.ClientKeyFile # "" /\ config.CAFile = ""
    THEN ErrCertCA
  ELSE NoErr

ValidateNoPairing(config) ==
  IF config.URL = "" THEN ErrURL
  ELSE IF config.ClientCertFile # "" /\ config.ClientKeyFile # "" /\ config.CAFile = ""
    THEN ErrCertCA
  ELSE IF config.TokenFile # "" /\ config.CAFile = "" THEN ErrTokenCA
  ELSE NoErr

Validate(config) ==
  IF config.URL = "" THEN ErrURL
  ELSE IF (config.ClientCertFile = "" /\ config.ClientKeyFile # "")
          \/ (config.ClientCertFile # "" /\ config.ClientKeyFile = "") THEN ErrPair
  ELSE IF config.ClientCertFile # "" /\ config.ClientKeyFile # "" /\ config.CAFile = ""
    THEN ErrCertCA
  ELSE IF config.TokenFile # "" /\ config.CAFile = "" THEN ErrTokenCA
  ELSE NoErr

\* Lines 109-127: the defaults, then the values of the config.
KeepAliveTimeShared(kc) ==
  [ Enable |-> kc.Enable,
    Time |-> IF kc.Time # Nil THEN kc.Time[1] ELSE DefaultTime,
    Timeout |-> IF kc.Timeout # Nil THEN kc.Timeout[1]
                ELSE IF kc.Time # Nil THEN kc.Time[1] ELSE DefaultTimeout,
    PermitWithoutStream |-> kc.PermitWithoutStream ]

BuildKeepAliveOptions(kc) ==
  [ Enable |-> kc.Enable,
    Time |-> IF kc.Time # Nil THEN kc.Time[1] ELSE DefaultTime,
    Timeout |-> IF kc.Timeout # Nil THEN kc.Timeout[1] ELSE DefaultTimeout,
    PermitWithoutStream |-> kc.PermitWithoutStream ]

BuildGRPCOptionsFromFlags(file) ==
  IF ~file.readable THEN [options |-> Nil, err |-> ErrReadFile]
  ELSE IF ~file.wellFormed THEN [options |-> Nil, err |-> ErrYaml]
  ELSE LET config == Unmarshal(file)
           err == Validate(config)
       IN IF err # NoErr THEN [options |-> Nil, err |-> err]
          ELSE [ options |->
                   << [ URL |-> config.URL,
                        CAFile |-> config.CAFile,
                        ClientCertFile |-> config.ClientCertFile,
                        ClientKeyFile |-> config.ClientKeyFile,
                        TokenFile |-> config.TokenFile,
                        KeepAliveOptions |->
                          BuildKeepAliveOptions(config.KeepAliveConfig) ] >>,
                 err |-> NoErr ]

BuildIdle ==
  /\ configFile = NoResult
  /\ buildPc = "idle"
  /\ buildResult = NoResult

Build ==
  /\ buildPc = "start"
  /\ buildResult' = BuildGRPCOptionsFromFlags(configFile)
  /\ buildPc' = "done"
  /\ UNCHANGED <<configFile, connVars, monVars, decodeVars>>

(***************************************************************************)
(* GRPCOptions.GetGRPCClientConn                                           *)
(***************************************************************************)

Paths == {"", "test"}

GRPCOptionsValues ==
  [ URL : Paths,
    CAFile : Paths,
    ClientCertFile : Paths,
    ClientKeyFile : Paths,
    TokenFile : Paths,
    KeepAliveOptions :
      [ Enable : BOOLEAN, Time : {DefaultTime}, Timeout : {DefaultTimeout},
        PermitWithoutStream : {FALSE} ] ]

\* Whether each step that touches the system, a file or the network succeeds.
Envs ==
  [ systemCertPool : BOOLEAN,
    readCAFile : BOOLEAN,
    appendCerts : BOOLEAN,
    loadKeyPair : BOOLEAN,
    readTokenFile : BOOLEAN,
    dial : BOOLEAN ]

VersionTLS13 == 772

ErrSystemCertPool == "system cert pool"
ErrReadCA == "read caFile"
ErrInvalidCA == "invalid CA"
ErrKeyPair == "load x509 key pair"
ErrReadToken == "read tokenFile"
ErrDial == "failed to connect to grpc server"

TLSCredentials(withClientCerts) ==
  [ opt |-> "WithTransportCredentials", creds |-> "tls",
    MinVersion |-> VersionTLS13, MaxVersion |-> VersionTLS13,
    Certificates |-> withClientCerts ]
InsecureCredentials ==
  [ opt |-> "WithTransportCredentials", creds |-> "insecure" ]
PerRPCCredentials == [ opt |-> "WithPerRPCCredentials", creds |-> "token" ]
KeepaliveParams(ka) ==
  [ opt |-> "WithKeepaliveParams", Time |-> ka.Time, Timeout |-> ka.Timeout,
    PermitWithoutStream |-> ka.PermitWithoutStream ]

\* A return of GetGRPCClientConn: conn is Nil or <<dialOpts>>, the options the
\* connection was dialled with; steps are the I/O steps performed, in order.
Return(conn, err, steps) == [conn |-> conn, err |-> err, steps |-> steps]

\* grpc.Dial(o.URL, dialOpts...), lines 200-205 and 210-215.
Dial(options, e, dialOpts, steps) ==
  IF e.dial THEN Return(<<dialOpts>>, NoErr, Append(steps, "dial"))
  ELSE Return(Nil, ErrDial, Append(steps, "dial"))

\* Lines 172-197: the client credential of the encrypted branch.
ClientCredentialTokenFirst(options, e, dialOpts, steps) ==
  IF options.TokenFile # ""
  THEN IF ~e.readTokenFile
       THEN Return(Nil, ErrReadToken, Append(steps, "readTokenFile"))
       ELSE Dial(options, e,
                 dialOpts \o <<TLSCredentials(FALSE), PerRPCCredentials>>,
                 Append(steps, "readTokenFile"))
  ELSE IF options.ClientCertFile # "" /\ options.ClientKeyFile # ""
  THEN IF ~e.loadKeyPair
       THEN Return(Nil, ErrKeyPair, Append(steps, "loadKeyPair"))
       ELSE Dial(options, e, Append(dialOpts, TLSCredentials(TRUE)),
                 Append(steps, "loadKeyPair"))
  ELSE Dial(options, e, Append(dialOpts, TLSCredentials(FALSE)), steps)

ClientCredentialTokenErrorDropped(options, e, dialOpts, steps) ==
  IF options.ClientCertFile # "" /\ options.ClientKeyFile # ""
  THEN IF ~e.loadKeyPair
       THEN Return(Nil, ErrKeyPair, Append(steps, "loadKeyPair"))
       ELSE Dial(options, e, Append(dialOpts, TLSCredentials(TRUE)),
                 Append(steps, "loadKeyPair"))
  ELSE IF options.TokenFile # ""
  THEN Dial(options, e,
            dialOpts \o <<TLSCredentials(FALSE), PerRPCCredentials>>,
            Append(steps, "readTokenFile"))
  ELSE Dial(options, e, Append(dialOpts, TLSCredentials(FALSE)), steps)

ClientCredential(options, e, dialOpts, steps) ==
  IF options.ClientCertFile # "" /\ options.ClientKeyFile # ""
  THEN IF ~e.loadKeyPair
       THEN Return(Nil, ErrKeyPair, Append(steps, "loadKeyPair"))
       ELSE Dial(options, e, Append(dialOpts, TLSCredentials(TRUE)),
                 Append(steps, "loadKeyPair"))
  ELSE IF options.TokenFile # ""
  THEN IF ~e.readTokenFile
       THEN Return(Nil, ErrReadToken, Append(steps, "readTokenFile"))
       ELSE Dial(options, e,
                 dialOpts \o <<TLSCredentials(FALSE), PerRPCCredentials>>,
                 Append(steps, "readTokenFile"))
  ELSE Dial(options, e, Append(dialOpts, TLSCredentials(FALSE)), steps)

GetGRPCClientConnTokenOnInsecure(options, e) ==
  LET dialOpts == IF options.KeepAliveOptions.Enable
                  THEN <<KeepaliveParams(options.KeepAliveOptions)>>
                  ELSE <<>>
  IN IF options.CAFile # ""
     THEN IF ~e.systemCertPool
          THEN Return(Nil, ErrSystemCertPool, <<"systemCertPool">>)
          ELSE IF ~e.readCAFile
          THEN Return(Nil, ErrReadCA, <<"systemCertPool", "readCAFile">>)
          ELSE IF ~e.appendCerts
          THEN Return(Nil, ErrInvalidCA,
                      <<"systemCertPool", "readCAFile", "appendCerts">>)
          ELSE ClientCredential(options, e, dialOpts,
                                <<"systemCertPool", "readCAFile", "appendCerts">>)
     ELSE IF options.TokenFile # ""
     THEN IF ~e.readTokenFile
          THEN Return(Nil, ErrReadToken, <<"readTokenFile">>)
          ELSE Dial(options, e,
                    dialOpts \o <<InsecureCredentials, PerRPCCredentials>>,
                    <<"readTokenFile">>)
     ELSE Dial(options, e, Append(dialOpts, InsecureCredentials), <<>>)

GetGRPCClientConn(options, e) ==
  LET dialOpts == IF options.KeepAliveOptions.Enable
                  THEN <<KeepaliveParams(options.KeepAliveOptions)>>
                  ELSE <<>>
  IN IF options.CAFile # ""
     THEN IF ~e.systemCertPool
          THEN Return(Nil, ErrSystemCertPool, <<"systemCertPool">>)
          ELSE IF ~e.readCAFile
          THEN Return(Nil, ErrReadCA, <<"systemCertPool", "readCAFile">>)
          ELSE IF ~e.appendCerts
          THEN Return(Nil, ErrInvalidCA,
                      <<"systemCertPool", "readCAFile", "appendCerts">>)
          ELSE ClientCredential(options, e, dialOpts,
                                <<"systemCertPool", "readCAFile", "appendCerts">>)
     ELSE Dial(options, e, Append(dialOpts, InsecureCredentials), <<>>)

ConnIdle ==
  /\ o = NoResult
  /\ env = NoResult
  /\ connPc = "idle"
  /\ connResult = NoResult

Connect ==
  /\ connPc = "start"
  /\ connResult' = GetGRPCClientConn(o, env)
  /\ connPc' = "done"
  /\ UNCHANGED <<o, env, buildVars, monVars, decodeVars>>

(***************************************************************************)
(* GRPCOptions.GetCloudEventsProtocol and its monitor goroutine            *)
(***************************************************************************)

MaxPolls == 3
MaxCloses == 2

\* connectivity.State of a connection that is not closed, and of a closed one.
LiveStates == {"Idle", "Connecting", "Ready", "TransientFailure"}
Shutdown == "SHUTDOWN"
\* What a connection that grpc.Dial has just returned may report.
InitialStates == {"Idle", "Connecting"}

\* The options and I/O outcomes the calls of GetCloudEventsProtocol are made with.
MonitorOptions ==
  { x \in GRPCOptionsValues :
      /\ x.URL = "test"
      /\ ~x.KeepAliveOptions.Enable
      /\ x.ClientCertFile = "" /\ x.ClientKeyFile = ""
      /\ (x.TokenFile # "" => x.CAFile # "") }
MonitorEnvs ==
  { e \in Envs : e.systemCertPool /\ e.readCAFile /\ e.appendCerts /\ e.loadKeyPair }

MonIdle ==
  /\ callerPc = "idle"
  /\ retErr = FALSE
  /\ connState = "none"
  /\ wasActive = FALSE
  /\ cancelled = FALSE
  /\ tickerRunning = FALSE
  /\ tickPending = FALSE
  /\ monPc = "none"
  /\ polls = 0
  /\ handlerCalls = 0
  /\ closeCalls = 0
  /\ lastPolled = [state |-> "none", prevActive |-> FALSE]
  /\ termObserved = FALSE

\* Line 239: the states the monitor reports.
IsDisconnected(s) == s = "TransientFailure" \/ s = "Idle"

\* Lines 219-225: the connection, then the go statement.
GetCloudEventsProtocol ==
  /\ callerPc = "start"
  /\ LET r == GetGRPCClientConn(o, env)
     IN IF r.err # NoErr
        THEN /\ callerPc' = "returned"
             /\ retErr' = TRUE
             /\ UNCHANGED <<connState, wasActive, monPc>>
        ELSE /\ callerPc' = "newProtocol"
             /\ \E s \in InitialStates :
                  /\ connState' = s
                  /\ wasActive' = (s = "Connecting")
             /\ monPc' = "spawned"
             /\ UNCHANGED retErr
  /\ UNCHANGED <<cancelled, tickerRunning, tickPending, polls, handlerCalls,
                 closeCalls, lastPolled, termObserved>>
  /\ UNCHANGED <<buildVars, connVars, decodeVars>>

\* Lines 249-251: protocol.NewProtocol(conn, opts...) and its error.
NewProtocol ==
  /\ callerPc = "newProtocol"
  /\ callerPc' = "returned"
  /\ \E failed \in BOOLEAN : retErr' = failed
  /\ UNCHANGED <<connState, wasActive, cancelled, tickerRunning, tickPending,
                 monPc, polls, handlerCalls, closeCalls, lastPolled, termObserved>>
  /\ UNCHANGED <<buildVars, connVars, decodeVars>>

\* The owner of ctx cancels it.
Cancel ==
  /\ callerPc # "idle"
  /\ ~cancelled
  /\ cancelled' = TRUE
  /\ UNCHANGED <<callerPc, retErr, connState, wasActive, tickerRunning,
                 tickPending, monPc, polls, handlerCalls, closeCalls, lastPolled,
                 termObserved>>
  /\ UNCHANGED <<buildVars, connVars, decodeVars>>

\* The connection changes state by itself while it is not closed.
ConnStateChange ==
  /\ connState \in LiveStates
  /\ \E s \in LiveStates \ {connState} :
       /\ connState' = s
       /\ wasActive' = (wasActive \/ s \in {"Connecting", "Ready"})
  /\ UNCHANGED <<callerPc, retErr, cancelled, tickerRunning, tickPending, monPc,
                 polls, handlerCalls, closeCalls, lastPolled, termObserved>>
  /\ UNCHANGED <<buildVars, connVars, decodeVars>>

\* Line 226: time.NewTicker(100 * time.Millisecond).
MonitorStart ==
  /\ monPc = "spawned"
  /\ tickerRunning' = TRUE
  /\ monPc' = "select"
  /\ UNCHANGED <<callerPc, retErr, connState, wasActive, cancelled, tickPending,
                 polls, handlerCalls, closeCalls, lastPolled, termObserved>>
  /\ UNCHANGED <<buildVars, connVars, decodeVars>>

\* The runtime sends a tick on ticker.C, which holds one tick at most.
Tick ==
  /\ tickerRunning
  /\ ~tickPending
  /\ tickPending' = TRUE
  /\ UNCHANGED <<callerPc, retErr, connState, wasActive, cancelled, tickerRunning,
                 monPc, polls, handlerCalls, closeCalls, lastPolled, termObserved>>
  /\ UNCHANGED <<buildVars, connVars, decodeVars>>

\* Lines 229-231: case <-ctx.Done(): ticker.Stop(); conn.Close(); the loop goes
\* on. Whether Stop leaves a tick already sent in ticker.C depends on the
\* timer channels of the build.
MonitorCtxDone ==
  /\ monPc = "select"
  /\ cancelled
  /\ closeCalls < MaxCloses
  /\ tickerRunning' = FALSE
  /\ \E stale \in BOOLEAN : tickPending' = (tickPending /\ stale)
  /\ connState' = Shutdown
  /\ closeCalls' = closeCalls + 1
  /\ monPc' = "select"
  /\ UNCHANGED <<callerPc, retErr, wasActive, cancelled, polls, handlerCalls,
                 lastPolled, termObserved>>
  /\ UNCHANGED <<buildVars, connVars, decodeVars>>

\* Lines 232-240: case <-ticker.C: the poll, and the call of errorHandler when
\* the state is TransientFailure or Idle.
MonitorTick ==
  /\ monPc = "select"
  /\ tickPending
  /\ polls < MaxPolls
  /\ tickPending' = FALSE
  /\ polls' = polls + 1
  /\ lastPolled' = [state |-> connState, prevActive |-> wasActive]
  /\ IF IsDisconnected(connState)
     THEN /\ handlerCalls' = handlerCalls + 1
          /\ termObserved' = TRUE
          /\ monPc' = "handler"
     ELSE UNCHANGED <<handlerCalls, termObserved, monPc>>
  /\ UNCHANGED <<callerPc, retErr, connState, wasActive, cancelled, tickerRunning,
                 closeCalls>>
  /\ UNCHANGED <<buildVars, connVars, decodeVars>>

\* The same two cases of the select once the history counters have reached
\* their bounds: the step is taken and the counter stays at its bound.
MonitorCtxDoneSaturated ==
  /\ monPc = "select"
  /\ cancelled
  /\ closeCalls = MaxCloses
  /\ tickerRunning' = FALSE
  /\ \E stale \in BOOLEAN : tickPending' = (tickPending /\ stale)
  /\ connState' = Shutdown
  /\ monPc' = "select"
  /\ UNCHANGED <<callerPc, retErr, wasActive, cancelled, polls, handlerCalls,
                 closeCalls, lastPolled, termObserved>>
  /\ UNCHANGED <<buildVars, connVars, decodeVars>>

MonitorTickSaturated ==
  /\ monPc = "select"
  /\ tickPending
  /\ polls = MaxPolls
  /\ tickPending' = FALSE
  /\ lastPolled' = [state |-> connState, prevActive |-> wasActive]
  /\ IF IsDisconnected(connState)
     THEN /\ handlerCalls' = handlerCalls + 1
          /\ termObserved' = TRUE
          /\ monPc' = "handler"
     ELSE UNCHANGED <<handlerCalls, termObserved, monPc>>
  /\ UNCHANGED <<callerPc, retErr, connState, wasActive, cancelled, tickerRunning,
                 polls, closeCalls>>
  /\ UNCHANGED <<buildVars, connVars, decodeVars>>

\* Lines 240-243: errorHandler returns; ticker.Stop(); conn.Close(); return.
HandlerReturnContinue ==
  /\ monPc = "handler"
  /\ monPc' = "select"
  /\ UNCHANGED <<callerPc, retErr, connState, wasActive, cancelled, tickerRunning,
                 tickPending, polls, handlerCalls, closeCalls, lastPolled,
                 termObserved>>
  /\ UNCHANGED <<buildVars, connVars, decodeVars>>

HandlerReturnNoReturn ==
  /\ monPc = "handler"
  /\ tickerRunning' = FALSE
  /\ \E stale \in BOOLEAN : tickPending' = (tickPending /\ stale)
  /\ connState' = Shutdown
  /\ closeCalls' = closeCalls + 1
  /\ monPc' = "select"
  /\ UNCHANGED <<callerPc, retErr, wasActive, cancelled, polls, handlerCalls,
                 lastPolled, termObserved>>
  /\ UNCHANGED <<buildVars, connVars, decodeVars>>

HandlerReturn ==
  /\ monPc = "handler"
  /\ tickerRunning' = FALSE
  /\ \E stale \in BOOLEAN : tickPending' = (tickPending /\ stale)
  /\ connState' = Shutdown
  /\ closeCalls' = closeCalls + 1
  /\ monPc' = "done"
  /\ UNCHANGED <<callerPc, retErr, wasActive, cancelled, polls, handlerCalls,
                 lastPolled, termObserved>>
  /\ UNCHANGED <<buildVars, connVars, decodeVars>>

(***************************************************************************)
(* ManifestBundleCodec.Decode                                              *)
(***************************************************************************)

\* Type strings, as their dot-separated tokens.
BadType == <<"test">>
OtherType == <<"test-group", "v1", "test", "spec", "test">>
BundleSpecType ==
  <<"io", "open-cluster-management", "works", "v1alpha1", "manifestbundles",
    "spec", "test">>
EventTypes == {BadType, OtherType, BundleSpecType}

Events ==
  [ type : EventTypes,
    resourceid : {Unset, "test"},
    resourceversion : {Unset, "13"},
    clustername : {Unset, "cluster1"},
    deletiontimestamp : {Unset, "1985-04-12T23:20:50.52Z"},
    data : {"none", "undecodable", "bundle"} ]

\* The data type this codec handles.
ManifestBundleEventDataType ==
  [ Group |-> <<"io", "open-cluster-management", "works">>,
    Version |-> "v1alpha1",
    Resource |-> "manifestbundles" ]

MinTypeTokens == 5

\* parse(string): <group>.<version>.<resource>.<subresource>.<action>
ParseCloudEventsType(t) ==
  IF Len(t) < MinTypeTokens \/ t[Len(t) - 1] \notin {"spec", "status"}
  THEN Nil
  ELSE << [ CloudEventsDataType |->
              [ Group |-> SubSeq(t, 1, Len(t) - 4),
                Version |-> t[Len(t) - 3],
                Resource |-> t[Len(t) - 2] ],
            SubResource |-> t[Len(t) - 1],
            Action |-> t[Len(t)] ] >>

ErrParseType == "failed to parse cloud event type"
ErrDataType == "unsupported cloudevents data type"
ErrResourceID == "failed to get resourceid extension"
ErrResourceVersion == "failed to get resourceversion extension"
ErrClusterName == "failed to get clustername extension"
ErrData == "failed to unmarshal event data"

DecodedWork(e) ==
  << [ UID |-> e.resourceid,
       ResourceVersion |-> e.resourceversion,
       Namespace |-> e.clustername,
       DeletionTimestamp |-> e.deletiontimestamp ] >>

DecodePayloadBeforeClusterName(e) ==
  LET eventType == ParseCloudEventsType(e.type)
  IN IF eventType = Nil THEN [work |-> Nil, err |-> ErrParseType]
     ELSE IF eventType[1].CloudEventsDataType # ManifestBundleEventDataType
       THEN [work |-> Nil, err |-> ErrDataType]
     ELSE IF e.resourceid = Unset THEN [work |-> Nil, err |-> ErrResourceID]
     ELSE IF e.resourceversion = Unset THEN [work |-> Nil, err |-> ErrResourceVersion]
     ELSE IF e.data # "bundle" THEN [work |-> Nil, err |-> ErrData]
     ELSE IF e.clustername = Unset THEN [work |-> Nil, err |-> ErrClusterName]
     ELSE [work |-> DecodedWork(e), err |-> NoErr]

Decode(e) ==
  LET eventType == ParseCloudEventsType(e.type)
  IN IF eventType = Nil THEN [work |-> Nil, err |-> ErrParseType]
     ELSE IF eventType[1].CloudEventsDataType # ManifestBundleEventDataType
       THEN [work |-> Nil, err |-> ErrDataType]
     ELSE IF e.resourceid = Unset THEN [work |-> Nil, err |-> ErrResourceID]
     ELSE IF e.resourceversion = Unset THEN [work |-> Nil, err |-> ErrResourceVersion]
     ELSE IF e.clustername = Unset THEN [work |-> Nil, err |-> ErrClusterName]
     ELSE IF e.data # "bundle" THEN [work |-> Nil, err |-> ErrData]
     ELSE [work |-> DecodedWork(e), err |-> NoErr]

DecodeEvent ==
  /\ decodePc = "start"
  /\ decodeResult' = Decode(evt)
  /\ decodePc' = "done"
  /\ UNCHANGED <<evt, buildVars, connVars, monVars>>

(***************************************************************************)
(* Specifications                                                          *)
(***************************************************************************)

DecodeIdle ==
  /\ evt = NoResult
  /\ decodePc = "idle"
  /\ decodeResult = NoResult

InitBuild ==
  /\ configFile \in ConfigFiles
  /\ buildPc = "start"
  /\ buildResult = NoResult
  /\ ConnIdle /\ MonIdle /\ DecodeIdle

NextBuild == Build

SpecBuild == InitBuild /\ [][NextBuild]_vars

InitConn ==
  /\ o \in GRPCOptionsValues
  /\ env \in Envs
  /\ connPc = "start"
  /\ connResult = NoResult
  /\ BuildIdle /\ MonIdle /\ DecodeIdle

NextConn == Connect

SpecConn == InitConn /\ [][NextConn]_vars

InitDecode ==
  /\ evt \in Events
  /\ decodePc = "start"
  /\ decodeResult = NoResult
  /\ BuildIdle /\ ConnIdle /\ MonIdle

NextDecode == DecodeEvent

SpecDecode == InitDecode /\ [][NextDecode]_vars

Init ==
  /\ o \in MonitorOptions
  /\ env \in MonitorEnvs
  /\ connPc = "idle"
  /\ connResult = NoResult
  /\ callerPc = "start"
  /\ retErr = FALSE
  /\ connState = "none"
  /\ wasActive = FALSE
  /\ cancelled = FALSE
  /\ tickerRunning = FALSE
  /\ tickPending = FALSE
  /\ monPc = "none"
  /\ polls = 0
  /\ handlerCalls = 0
  /\ closeCalls = 0
  /\ lastPolled = [state |-> "none", prevActive |-> FALSE]
  /\ termObserved = FALSE
  /\ BuildIdle /\ DecodeIdle

Next ==
  \/ GetCloudEventsProtocol
  \/ NewProtocol
  \/ Cancel
  \/ ConnStateChange
  \/ MonitorStart
  \/ Tick
  \/ MonitorCtxDone
  \/ MonitorTick
  \/ HandlerReturn

Spec == Init /\ [][Next]_vars

\* The monitor under a fair scheduler: the goroutine and the ticker take the
\* steps they can take. errorHandler is the caller's function and need not
\* return, so HandlerReturn has no fairness.
NextLive ==
  \/ Next
  \/ MonitorCtxDoneSaturated
  \/ MonitorTickSaturated

FairSpec ==
  /\ Init
  /\ [][NextLive]_vars
  /\ WF_vars(MonitorStart)
  /\ WF_vars(Tick)
  /\ WF_vars(MonitorTick)
  /\ WF_vars(MonitorTickSaturated)
  /\ WF_vars(MonitorCtxDone)
  /\ WF_vars(MonitorCtxDoneSaturated)

(***************************************************************************)
(* Properties                                                              *)
(***************************************************************************)

\* C1: once a poll has observed TransientFailure or Idle, errorHandler has been
\* invoked exactly once, no later step polls the state or invokes the handler
\* again, and the monitor, once it has returned, has stopped the ticker and
\* closed the connection and stays stopped.
C1_TerminalStopsMonitor ==
  /\ [](termObserved => handlerCalls = 1 /\ monPc \in {"handler", "done"})
  /\ []((termObserved /\ monPc = "done") =>
          connState = Shutdown /\ ~tickerRunning /\ closeCalls >= 1)
  /\ [][termObserved => polls' = polls /\ handlerCalls' = handlerCalls]_vars
  /\ [][monPc = "done" => monPc' = "done"]_vars

\* C1 witness: TransientFailure seen by the second poll, handler run, monitor
\* returned.
C1_Witness ==
  /\ monPc = "done"
  /\ polls = 2
  /\ lastPolled.state = "TransientFailure"
  /\ handlerCalls = 1
  /\ connState = Shutdown

\* C2: errorHandler is invoked at most once per call of GetCloudEventsProtocol,
\* whatever the order of ticks, state changes and cancellation.
C2_HandlerAtMostOnce == handlerCalls <= 1

\* C2 witness: the handler ran after a cancellation and several polls.
C2_Witness ==
  /\ handlerCalls = 1
  /\ cancelled
  /\ polls >= 2
  /\ monPc = "done"

\* C3: after ctx is cancelled no step polls the connection state or invokes
\* errorHandler.
C3_NoPollAfterCancel ==
  [][cancelled => polls' = polls /\ handlerCalls' = handlerCalls]_vars

\* C4: errorHandler is invoked, and the connection closed on a failure, only
\* when the poll observed TransientFailure, or observed Idle on a connection
\* that had been Ready or Connecting before.
C4_HandlerOnlyOnTransition ==
  (handlerCalls > 0 \/ termObserved) =>
    \/ lastPolled.state = "TransientFailure"
    \/ lastPolled.state = "Idle" /\ lastPolled.prevActive

\* The rules of the configuration, on the keys of the document.
Present(s) == s \notin {Unset, ""}
Rule1Violated(doc) == ~Present(doc.url)
Rule2Violated(doc) == Present(doc.clientCertFile) # Present(doc.clientKeyFile)
Rule3Violated(doc) ==
  Present(doc.clientCertFile) /\ Present(doc.clientKeyFile) /\ ~Present(doc.caFile)
Rule4Violated(doc) == Present(doc.tokenFile) /\ ~Present(doc.caFile)
FirstViolatedRule(doc) ==
  CASE Rule1Violated(doc) -> ErrURL
    [] ~Rule1Violated(doc) /\ Rule2Violated(doc) -> ErrPair
    [] ~Rule1Violated(doc) /\ ~Rule2Violated(doc) /\ Rule3Violated(doc) -> ErrCertCA
    [] ~Rule1Violated(doc) /\ ~Rule2Violated(doc) /\ ~Rule3Violated(doc)
       /\ Rule4Violated(doc) -> ErrTokenCA
    [] OTHER -> NoErr

\* C5: for a document that is read and parsed, the error returned is that of
\* the lowest-numbered violated rule (url, pairing, cert/key needs caFile,
\* tokenFile needs caFile), and there is none when no rule is violated.
C5_FirstViolationWins ==
  (buildPc = "done" /\ configFile.readable /\ configFile.wellFormed) =>
    buildResult.err = FirstViolatedRule(configFile)

\* C5 witness: the pairing rule and the token rule are both violated and the
\* pairing error is the one returned.
C5_Witness ==
  /\ buildPc = "done"
  /\ configFile.readable /\ configFile.wellFormed
  /\ Rule2Violated(configFile) /\ Rule4Violated(configFile)
  /\ buildResult.err = ErrPair

\* C6: options returned without error have a URL, a client cert and key that
\* are both set or both empty, and a CAFile whenever a cert, a key or a token
\* file is set; with an error the options are nil.
C6_ReturnedOptionsValid ==
  buildPc = "done" =>
    IF buildResult.err = NoErr
    THEN /\ buildResult.options # Nil
         /\ LET opt == buildResult.options[1]
            IN /\ opt.URL # ""
               /\ (opt.ClientCertFile = "") = (opt.ClientKeyFile = "")
               /\ (opt.ClientCertFile # "" \/ opt.ClientKeyFile # "") => opt.CAFile # ""
               /\ opt.TokenFile # "" => opt.CAFile # ""
    ELSE buildResult.options = Nil

\* C6 witness: options with caFile, cert, key and token file all set are built.
C6_Witness ==
  /\ buildPc = "done"
  /\ buildResult.err = NoErr
  /\ buildResult.options # Nil
  /\ buildResult.options[1].ClientCertFile # ""
  /\ buildResult.options[1].ClientKeyFile # ""
  /\ buildResult.options[1].TokenFile # ""
  /\ buildResult.options[1].CAFile # ""

\* C7: every keep-alive field of the built options is the value the document
\* gives for it, or its default (false, 30s, 10s, false) when the document
\* does not give one.
C7_KeepAliveFieldsIndependent ==
  (buildPc = "done" /\ buildResult.err = NoErr) =>
    LET ka == buildResult.options[1].KeepAliveOptions
    IN /\ ka.Enable = (IF configFile.enable = Unset THEN FALSE
                       ELSE configFile.enable = "true")
       /\ ka.Time = (IF configFile.time = Unset THEN 30
                     ELSE ParseDuration(configFile.time))
       /\ ka.Timeout = (IF configFile.timeout = Unset THEN 10
                        ELSE ParseDuration(configFile.timeout))
       /\ ka.PermitWithoutStream = (IF configFile.permitWithoutStream = Unset THEN FALSE
                                    ELSE configFile.permitWithoutStream = "true")

\* C7 witness: only time is given; timeout keeps its default.
C7_Witness ==
  /\ buildPc = "done"
  /\ buildResult.err = NoErr
  /\ configFile.time = "5s"
  /\ configFile.timeout = Unset
  /\ configFile.enable = "true"
  /\ buildResult.options[1].KeepAliveOptions.Time = 5
  /\ buildResult.options[1].KeepAliveOptions.Timeout = 10

\* The credential mode the options ask for.
ClaimedMode(opt) ==
  IF opt.CAFile = "" THEN "insecure"
  ELSE IF opt.ClientCertFile # "" /\ opt.ClientKeyFile # "" THEN "mtls"
  ELSE IF opt.TokenFile # "" THEN "tls+token"
  ELSE "tls"

\* The credential mode of the dial options of a connection.
TransportCredentials(dialOpts) ==
  { i \in DOMAIN dialOpts : dialOpts[i].opt = "WithTransportCredentials" }
PerRPC(dialOpts) ==
  { i \in DOMAIN dialOpts : dialOpts[i].opt = "WithPerRPCCredentials" }
DialledMode(dialOpts) ==
  LET t == dialOpts[CHOOSE i \in TransportCredentials(dialOpts) : TRUE]
  IN IF t.creds = "insecure"
     THEN IF PerRPC(dialOpts) = {} THEN "insecure" ELSE "insecure+token"
     ELSE IF t.Certificates
     THEN IF PerRPC(dialOpts) = {} THEN "mtls" ELSE "mtls+token"
     ELSE IF PerRPC(dialOpts) = {} THEN "tls" ELSE "tls+token"

\* C8: a connection is dialled with exactly one transport credential, in the
\* mode its options ask for (insecure, mutual TLS, TLS with token, TLS), and
\* with a client cert and key the token file is never read.
C8_CredentialMode ==
  connPc = "done" =>
    /\ connResult.conn # Nil =>
         /\ Cardinality(TransportCredentials(connResult.conn[1])) = 1
         /\ Cardinality(PerRPC(connResult.conn[1])) <= 1
         /\ DialledMode(connResult.conn[1]) = ClaimedMode(o)
    /\ ClaimedMode(o) = "mtls" => "readTokenFile" \notin Range(connResult.steps)

\* C8 witness: caFile, cert, key and token file all set, connection made.
C8_Witness ==
  /\ connPc = "done"
  /\ connResult.conn # Nil
  /\ o.CAFile # "" /\ o.ClientCertFile # "" /\ o.ClientKeyFile # ""
  /\ o.TokenFile # ""
  /\ DialledMode(connResult.conn[1]) = "mtls"

Dials(steps) == Cardinality({ i \in DOMAIN steps : steps[i] = "dial" })
\* An artifact the call needs fails to load.
ArtifactFailure(opt, e) ==
  /\ opt.CAFile # ""
  /\ \/ ~e.systemCertPool
     \/ ~e.readCAFile
     \/ ~e.appendCerts
     \/ ClaimedMode(opt) = "mtls" /\ ~e.loadKeyPair
     \/ ClaimedMode(opt) = "tls+token" /\ ~e.readTokenFile

\* C9: a failure of the system pool, the CA file, the key pair or the token
\* file returns an error with no dial; every call dials at most once; a failed
\* dial returns an error and no connection.
C9_AbortBeforeDial ==
  connPc = "done" =>
    /\ Dials(connResult.steps) <= 1
    /\ (connResult.conn = Nil) = (connResult.err # NoErr)
    /\ ArtifactFailure(o, env) =>
         /\ connResult.err # NoErr
         /\ Dials(connResult.steps) = 0
    /\ \A i \in DOMAIN connResult.steps :
         (connResult.steps[i] # "dial" /\ ~env[connResult.steps[i]]) =>
           /\ connResult.err # NoErr
           /\ Dials(connResult.steps) = 0
    /\ (~ArtifactFailure(o, env) /\ ~env.dial) =>
         /\ connResult.err = ErrDial
         /\ connResult.conn = Nil
         /\ Dials(connResult.steps) = 1

\* C9 witness: the token file cannot be read; the call fails without a dial.
C9_Witness ==
  /\ connPc = "done"
  /\ ClaimedMode(o) = "tls+token"
  /\ env.systemCertPool /\ env.readCAFile /\ env.appendCerts
  /\ ~env.readTokenFile
  /\ connResult.err = ErrReadToken
  /\ Dials(connResult.steps) = 0

\* The failure conditions of an envelope, in the order of their priority.
TypeUnparseable(e) == e.type = BadType
DataTypeUnsupported(e) == e.type = OtherType
FailureReasons(e) ==
  << <<TypeUnparseable(e), ErrParseType>>,
     <<~TypeUnparseable(e) /\ DataTypeUnsupported(e), ErrDataType>>,
     <<e.resourceid = Unset, ErrResourceID>>,
     <<e.resourceversion = Unset, ErrResourceVersion>>,
     <<e.clustername = Unset, ErrClusterName>>,
     <<e.data # "bundle", ErrData>> >>
Applies(e) == { i \in DOMAIN FailureReasons(e) : FailureReasons(e)[i][1] }
Earliest(e) == CHOOSE i \in Applies(e) : \A j \in Applies(e) : i <= j

C11_ClosesWithoutWaiting ==
  (handlerCalls > 0) ~> (connState = Shutdown /\ monPc = "done")

\* C12: when the monitor is never cancelled, a connection that enters
\* TransientFailure leads to an invocation of errorHandler and to the
\* connection being closed, also when it leaves TransientFailure before the
\* next poll.
C12_FailureEventuallyHandled ==
  (connState = "TransientFailure") ~>
    (cancelled \/ (handlerCalls > 0 /\ connState = Shutdown))

\* C13: after cancellation the monitor closes the connection exactly once:
\* conn.Close() is never called a second time.
C13_ClosesOnceAfterCancel == closeCalls <= 1

\* C14: when GetCloudEventsProtocol has returned an error, no monitor is
\* running for the call, no connection is left open and errorHandler is not
\* invoked from then on.
C14_NoMonitorAfterError ==
  /\ []((callerPc = "returned" /\ retErr) =>
          /\ monPc \in {"none", "done"}
          /\ connState \in {"none", Shutdown})
  /\ [][(callerPc = "returned" /\ retErr) => handlerCalls' = handlerCalls]_vars

\* C15: a bearer token is attached only to a connection whose transport
\* credentials are TLS; without a caFile the token file is not read and no
\* token is attached; every TLS configuration has MinVersion = MaxVersion.
C15_TokenOnlyOverTLS ==
  connPc = "done" =>
    /\ o.CAFile = "" => "readTokenFile" \notin Range(connResult.steps)
    /\ connResult.conn # Nil =>
         LET dialOpts == connResult.conn[1]
         IN /\ PerRPC(dialOpts) # {} =>
                 /\ TransportCredentials(dialOpts) # {}
                 /\ \A i \in TransportCredentials(dialOpts) :
                      dialOpts[i].creds = "tls"
            /\ o.CAFile = "" => PerRPC(dialOpts) = {}
            /\ \A i \in TransportCredentials(dialOpts) :
                 dialOpts[i].creds = "tls" =>
                   /\ dialOpts[i].MinVersion = dialOpts[i].MaxVersion
                   /\ dialOpts[i].MinVersion = VersionTLS13

\* C15 witness: options with a token file and no caFile, which the builder
\* would reject, are dialled insecurely.
C15_Witness ==
  /\ connPc = "done"
  /\ o.CAFile = ""
  /\ o.TokenFile # ""
  /\ connResult.conn # Nil
  /\ DialledMode(connResult.conn[1]) = "insecure"

====
